---- MODULE Spec2Model ----
(***************************************************************************)
(* A model of Server.handle (server/server.ts): the request dispatcher of  *)
(* the Aleph server.  Strings that the code takes apart (paths, specifiers, *)
(* event names, code text) are sequences of tokens, so that startsWith,     *)
(* endsWith, trimPrefix, trimSuffix and concatenation are computed.         *)
(***************************************************************************)
EXTENDS Naturals, Sequences, FiniteSets, TLC

(***************************************************************************)
(* Bounds of the model.                                                    *)
(***************************************************************************)
MaxEvents == 3         \* file events the application's watcher reports
MaxSubscriptions == 2  \* modify listeners registered with all watchers
MaxRecompiles == 1     \* recompilations of a module while requests are served

\* The handle() invocations of a behaviour, and those that may be HMR channels.
Reqs == {1, 2}
Chans == {1}

(***************************************************************************)
(* Token strings.                                                          *)
(***************************************************************************)
startsWith(s, prefix) ==
  /\ Len(s) >= Len(prefix)
  /\ SubSeq(s, 1, Len(prefix)) = prefix

endsWith(s, suffix) ==
  /\ Len(s) >= Len(suffix)
  /\ SubSeq(s, Len(s) - Len(suffix) + 1, Len(s)) = suffix

trimPrefix(s, prefix) ==
  IF prefix # <<>> /\ startsWith(s, prefix)
    THEN SubSeq(s, Len(prefix) + 1, Len(s))
    ELSE s

trimSuffix(s, suffix) ==
  IF suffix # <<>> /\ endsWith(s, suffix)
    THEN SubSeq(s, 1, Len(s) - Len(suffix))
    ELSE s

\* util.splitPath: the segments between separators, empty ones dropped.
RECURSIVE splitPath(_)
splitPath(s) ==
  IF s = <<>> THEN <<>>
  ELSE IF Head(s) = "/" THEN splitPath(Tail(s))
  ELSE LET rest == splitPath(Tail(s)) IN
       IF Len(s) > 1 /\ s[2] # "/" /\ rest # <<>>
         THEN <<(<<Head(s)>> \o Head(rest))>> \o Tail(rest)
         ELSE <<(<<Head(s)>>)>> \o rest

RECURSIVE joinSegments(_)
joinSegments(segs) ==
  IF segs = <<>> THEN <<>>
  ELSE <<"/">> \o Head(segs) \o joinSegments(Tail(segs))

\* util.cleanPath: '/' + splitPath(path).join('/')
cleanPath(s) ==
  IF splitPath(s) = <<>> THEN <<"/">> ELSE joinSegments(splitPath(s))

\* framework/core/module.ts
builtinModuleExts == <<".tsx", ".jsx", ".ts", ".js", ".mjs">>

RECURSIVE trimExts(_, _)
trimExts(s, exts) ==
  IF exts = <<>> THEN s
  ELSE IF endsWith(s, <<Head(exts)>>) THEN trimSuffix(s, <<Head(exts)>>)
  ELSE trimExts(s, Tail(exts))

trimBuiltinModuleExts(specifier) == trimExts(specifier, builtinModuleExts)

\* util.isNEString on a token string
isNEString(s) == Len(s) > 0

\* decodeURI: escape sequences are decoded; a malformed one throws URIError.
decodeURIThrows(s) == \E i \in DOMAIN s : s[i] = "%E0%A4%A"
decodeURI(s) == [i \in DOMAIN s |-> IF s[i] = "%20" THEN " " ELSE s[i]]

(***************************************************************************)
(* The project the server runs on.                                         *)
(***************************************************************************)
IndexTsx == <<"/", "pages", "/", "index", ".tsx">>
LogoTsx  == <<"/", "components", "/", "logo", ".tsx">>
AppCss   == <<"/", "style", "/", "app", ".css">>
GoneTsx  == <<"/", "pages", "/", "gone", ".tsx">>

RootBase == <<"/">>
DocsBase == <<"/", "docs">>

HmrPath == <<"/", "_hmr">>
AlephPrefix == <<"/", "_aleph", "/">>
ApiPrefix == <<"/", "api", "/">>


(***************************************************************************)
(* JSON documents and WebSocket events.  A JSON value is a record with its *)
(* kind t, its string content s and, for an object, the two properties the *)
(* receive loop reads.                                                     *)
(***************************************************************************)
JUndef == [t |-> "undefined", s |-> <<>>]
JNum   == [t |-> "number", s |-> <<"42">>]
JStr(s) == [t |-> "string", s |-> s]
\* A document: a value that is no object has neither property.
JDoc(v) == [t |-> v.t, s |-> v.s, type |-> JUndef, specifier |-> JUndef]
JObj(type, specifier) ==
  [t |-> "object", s |-> <<>>, type |-> type, specifier |-> specifier]

\* The specifiers a client may name: modules of the project and GoneTsx,
\* which the project may not hold.
HotSpecifiers == {IndexTsx, AppCss, GoneTsx}

\* The events of a socket: text frames (the empty string, text that is no
\* JSON, JSON documents that are no hotAccept message, hotAccept messages),
\* binary and ping frames, and the close event.
TextFrame(syntax, doc) == [kind |-> "text", syntax |-> syntax, doc |-> doc]

SocketEvents ==
  { TextFrame("empty", JDoc(JUndef)), TextFrame("bad", JDoc(JUndef)) }
    \cup { [kind |-> k, syntax |-> "", doc |-> JDoc(JUndef)] :
             k \in {"binary", "ping", "close"} }
    \cup { TextFrame("ok", d) :
             d \in { JDoc([t |-> "null", s |-> <<>>]), JDoc(JNum),
                     JDoc(JStr(<<"hotAccept">>)),
                     JObj(JUndef, JUndef),
                     JObj(JStr(<<"ping">>), JStr(IndexTsx)),
                     JObj(JStr(<<"hotAccept">>), JUndef),
                     JObj(JStr(<<"hotAccept">>), JStr(<<>>)),
                     JObj(JStr(<<"hotAccept">>), JNum),
                     JObj(JNum, JStr(IndexTsx)) } }
    \cup { TextFrame("ok", JObj(JStr(<<"hotAccept">>), JStr(s))) : s \in HotSpecifiers }

\* util.isNEString(e) on a socket event: a string, and not the empty one.
isNEStringEvent(e) == e.kind = "text" /\ e.syntax # "empty"

\* isWebSocketCloseEvent(e): the event carries a close code.
isWebSocketCloseEvent(e) == e.kind = "close"

\* JSON.parse(e): the document, or a SyntaxError.
JSONparse(e) ==
  IF e.syntax = "ok" THEN [threw |-> FALSE, value |-> e.doc]
  ELSE [threw |-> TRUE, value |-> JDoc(JUndef)]

\* data.<key>: reading a property of null throws a TypeError; a value that is
\* no object has no such property.
GetProp(data, key) ==
  IF data.t = "null" THEN [threw |-> TRUE, value |-> JUndef]
  ELSE IF data.t = "object"
    THEN [threw |-> FALSE, value |-> IF key = "type" THEN data.type ELSE data.specifier]
  ELSE [threw |-> FALSE, value |-> JUndef]

\* util.isNEString(v) on a JSON value
isNEStringValue(v) == v.t = "string" /\ isNEString(v.s)


(***************************************************************************)
(* Module records and the compiler (server/app.ts, compiler/mod.ts).       *)
(* Code text is a sequence of lines, a line a sequence of tokens.          *)
(***************************************************************************)
AboutJsx == <<"/", "pages", "/", "about", ".jsx">>
AboutTs  == <<"/", "pages", "/", "about", ".ts">>
ReactJs  == <<"/", "-", "/", "esm.sh", "/", "react", ".js">>
SwrJs    == <<"/", "-", "/", "esm.sh", "/", "swr", ".js">>

Specifiers == {IndexTsx, LogoTsx, AppCss, GoneTsx, AboutJsx, AboutTs, ReactJs, SwrJs}

\* The modules the application holds when it becomes ready.
InitialModules == {IndexTsx, LogoTsx, AppCss, ReactJs, SwrJs}

\* null (no content) and the absence of a property, as values comparable with
\* code text.
Null == << <<"null">> >>
Absent == << <<"absent">> >>

Name(s) ==
  CASE s = IndexTsx -> "index"
    [] s = LogoTsx -> "logo"
    [] s = AppCss -> "appcss"
    [] s = GoneTsx -> "gone"
    [] s = AboutJsx -> "aboutjsx"
    [] s = AboutTs -> "aboutts"
    [] s = SwrJs -> "swr"
    [] OTHER -> "react"

VTag(n) == CASE n = 1 -> "1" [] n = 2 -> "2" [] n = 3 -> "3" [] n = 4 -> "4"
             [] n = 5 -> "5" [] n = 6 -> "6" [] n = 7 -> "7" [] OTHER -> "n"

\* The server-only hooks each source declares.
DenoHooks(s) == IF s \in {AboutJsx, AboutTs} THEN <<"useDeno-1">> ELSE <<>>
SsrPropsFn(s) == IF s = IndexTsx THEN "ssr" ELSE ""
SsgPathsFn(s) == IF s = GoneTsx THEN "ssg" ELSE ""

\* The compiler's output for the n-th compilation of a source.
CompiledCode(s, n) ==
  <<(<<"import", "react">>)>>
    \o (IF DenoHooks(s) # <<>> THEN <<(<<"useDeno", Name(s), VTag(n)>>)>> ELSE <<>>)
    \o (IF SsrPropsFn(s) # "" THEN <<(<<"ssr", Name(s), VTag(n)>>)>> ELSE <<>>)
    \o (IF SsgPathsFn(s) # "" THEN <<(<<"ssg", Name(s), VTag(n)>>)>> ELSE <<>>)
    \o <<(<<"export default", Name(s), VTag(n)>>)>>

\* The module record app.compile builds: a new record for every compilation.
\* A record of a module without a compiled hash has hash "", a remote module
\* that was not fetched has no output, and no record has a csrCode property
\* when it is built.
NewModule(s, n) ==
  [ specifier  |-> s,
    jsFile     |-> trimBuiltinModuleExts(s) \o <<".js">>,
    hash       |-> IF s = LogoTsx THEN "" ELSE "c" \o Name(s) \o VTag(n),
    sourceHash |-> "s" \o Name(s) \o VTag(n),
    denoHooks  |-> DenoHooks(s),
    ssrPropsFn |-> SsrPropsFn(s),
    ssgPathsFn |-> SsgPathsFn(s),
    jsBuffer   |-> IF s = SwrJs THEN Null ELSE CompiledCode(s, n),
    csrCode    |-> Absent,
    ver        |-> n ]

\* compiler stripSsrCode(specifier, code): the code without server-only code.
stripSsrCode(specifier, code) ==
  SelectSeq(code, LAMBDA line : Head(line) \notin {"useDeno", "ssr", "ssg"})

(***************************************************************************)
(* State.                                                                  *)
(***************************************************************************)
VARIABLES
  isDev,             \* app.isDev
  basePath,          \* app.config.basePath
  VERSION,           \* version.ts VERSION of the running build
  heap,              \* the module records ever built: heap[s][n] is the record
                     \* of the n-th compilation of specifier s
  modules,           \* app's module table: the n of the record it holds for
                     \* each specifier (0: none)
  pc,                \* where each handle() invocation stands
  pathname,          \* its decoded pathname
  hdr,               \* its request headers
  branch,            \* the resource class it was dispatched to
  loc,               \* its local variables
  res,               \* its response context (req)
  fsWatchListeners,  \* the watchers registered with the application
  listeners,         \* each watcher's listeners, in registration order
  sent,              \* the frames the last step sent on each socket
  lastEvent,         \* the file event the last step reported, if any
  events,            \* file events reported so far
  hot                \* history, per channel: n, the hotAccept messages for a
                     \* known module since the last remove of it; upd, the
                     \* update frames sent since the last hotAccept for it
                     \* (counted to 2);
                     \* torn, the specifiers whose listeners a remove tore down;
                     \* dropped, 1 once the channel dropped a text message
                     \* while it held a modify listener

vars == <<isDev, basePath, VERSION, heap, modules, pc, pathname, hdr, branch,
          loc, res, fsWatchListeners, listeners, sent, lastEvent, events, hot>>

appVars == <<isDev, basePath, VERSION>>
modVars == <<heap, modules>>
hmrVars == <<fsWatchListeners, listeners, hot>>


(***************************************************************************)
(* The file system and the request paths.                                  *)
(***************************************************************************)
WorkingDir == <<"/", "app">>
BuildDir == <<"/", "app", "/", ".aleph">>
PublicDir == <<"/", "app", "/", "public">>

\* std/path join: the parts joined by separators and normalized.
join(a, b) == cleanPath(a \o <<"/">> \o b)

\* The paths clients request, by name; spaced is the decoded spacedUrl.
Path ==
  [ favicon |-> <<"/", "favicon", ".ico">>,
    apiDoc |-> <<"/", "api", "/", "openapi", ".json">>,
    apiPing |-> <<"/", "api", "/", "ping">>,
    apiBad |-> <<"/", "api", "/", "bad">>,
    apiNone |-> <<"/", "api", "/", "none">>,
    about |-> <<"/", "about">>,
    alephBare |-> <<"/", "_aleph">>,
    alephLogo |-> <<"/", "_aleph", "/", "logo", ".png">>,
    mainJs |-> <<"/", "_aleph", "/", "main", ".js">>,
    dataAbout |-> <<"/", "_aleph", "/", "data", "/", "L2Fib3V0", ".json">>,
    dataNone |-> <<"/", "_aleph", "/", "data", "/", "L25vbmU", ".json">>,
    indexJs |-> <<"/", "_aleph", "/", "pages", "/", "index", ".js">>,
    logoJs |-> <<"/", "_aleph", "/", "components", "/", "logo", ".js">>,
    appCssJs |-> <<"/", "_aleph", "/", "style", "/", "app", ".css", ".js">>,
    reactJs |-> <<"/", "_aleph", "/", "-", "/", "esm.sh", "/", "react", ".js">>,
    aboutJs |-> <<"/", "_aleph", "/", "pages", "/", "about", ".js">>,
    missingJs |-> <<"/", "_aleph", "/", "pages", "/", "missing", ".js">>,
    bundleJs |-> <<"/", "_aleph", "/", "deps", ".bundle", ".js">>,
    swrJs |-> <<"/", "_aleph", "/", "-", "/", "esm.sh", "/", "swr", ".js">>,
    spacedUrl |-> <<"/", "my", "%20", "logo", ".png">>,
    spaced |-> <<"/", "my", " ", "logo", ".png">>,
    malformedUrl |-> <<"/", "%E0%A4%A">> ]

\* The files on disk: sources, public files (one named like the HMR path, one
\* under /api/, one under /_aleph/) and build output.
Disk ==
  { join(WorkingDir, s) : s \in {IndexTsx, LogoTsx, AppCss, AboutJsx, AboutTs} }
    \cup { join(PublicDir, f) :
             f \in {Path.favicon, Path.apiDoc, HmrPath, Path.alephLogo, Path.spaced} }
    \cup { join(BuildDir, trimPrefix(f, <<"/", "_aleph">>)) : f \in {Path.bundleJs, Path.swrJs} }

\* shared/fs.ts existsFile
existsFile(path) == path \in Disk

\* The paths of the requests that are decoded.
Pathnames ==
  {HmrPath} \cup {Path[k] : k \in DOMAIN Path \ {"spaced", "malformedUrl"}}

\* framework/core/routing.ts rewriteURL, with no rewrite rules configured:
\* the base path is trimmed off the request path.
rewriteURL(url, base) ==
  IF base # RootBase THEN cleanPath(trimPrefix(url, base)) ELSE url

(***************************************************************************)
(* The resource classes, in the order handle() tests them.                 *)
(***************************************************************************)
\* Mutant: API routes are tested before the public directory.
RouteApiFirst(p) ==
  IF p = HmrPath THEN "hmr"
  ELSE IF startsWith(p, AlephPrefix) THEN "dist"
  ELSE IF startsWith(p, ApiPrefix) THEN "api"
  ELSE IF existsFile(join(PublicDir, p)) THEN "public"
  ELSE "page"

Route(p) ==
  IF p = HmrPath THEN "hmr"
  ELSE IF startsWith(p, AlephPrefix) THEN "dist"
  ELSE IF existsFile(join(PublicDir, p)) THEN "public"
  ELSE IF startsWith(p, ApiPrefix) THEN "api"
  ELSE "page"

(***************************************************************************)
(* The response context (server/api.ts Request).                           *)
(***************************************************************************)
\* An absent header: of ETag kind, of date kind.
NoHeader == <<>>
NoDate == ""

NewResponse ==
  [ status |-> 200, cacheControl |-> "", etag |-> NoHeader, lastModified |-> NoDate,
    ctype |-> "", body |-> <<>>, sends |-> 0 ]

\* req.status(status).send(body, ctype).  The first send finalizes the
\* response; a later one is issued on a finalized context and changes nothing
\* of what was sent.  sends counts the sends issued.
Send(rs, status, body, ctype) ==
  IF rs.sends > 0 THEN [rs EXCEPT !.sends = @ + 1]
  ELSE [rs EXCEPT !.status = status, !.body = body, !.ctype = ctype, !.sends = 1]

Errors == { [message |-> "boom", stack |-> "Error: boom at handle"] }

\* The page the top-level catch sends.
ErrorPage(err) ==
  << <<"<!DOCTYPE html>">>,
     <<"<title>Server Error</title>">>,
     <<"<h1>Error: ", err.message, "</h1>">>,
     <<"<p><pre>", err.stack, "</pre></p>">> >>

Catch(rs, err) == Send(rs, 500, ErrorPage(err), "text/html; charset=utf-8")

\* A reference to a module record; NoModule is undefined.
Ref(s, n) == [s |-> s, n |-> n]
NoModule == Ref(<<>>, 0)
Deref(ref) == heap[ref.s][ref.n]

\* The locals of an invocation, and what the history records of it: probed,
\* the files the on-demand lookup tested; stripped, whether it called
\* stripSsrCode; after, the invocations that had answered when it began;
\* epoch, the compilations of the requested module's source that had been
\* made when it began; version, the build version it began under; logged,
\* what it wrote to the error log; read, the files whose bodies it read.
NoLocals ==
  [ module |-> NoModule, content |-> Null, code |-> <<>>, probed |-> <<>>,
    stripped |-> FALSE, after |-> {}, epoch |-> 0, version |-> "",
    logged |-> <<>>, read |-> <<>> ]

NothingSent == [r \in Reqs |-> <<>>]
NoEvent == [kind |-> "none", specifier |-> <<>>]
FileEvent(kind, specifier) == [kind |-> kind, specifier |-> specifier]

\* A step that reports no file event and sends no frame.
Quiet == sent' = NothingSent /\ lastEvent' = NoEvent

Init ==
  /\ isDev \in BOOLEAN
  /\ basePath \in {RootBase, DocsBase}
  /\ VERSION = "0.3.0"
  /\ heap = [s \in Specifiers |->
                IF s \in InitialModules THEN <<NewModule(s, 1)>> ELSE <<>>]
  /\ modules = [s \in Specifiers |-> IF s \in InitialModules THEN 1 ELSE 0]
  /\ pc = [r \in Reqs |-> "idle"]
  /\ pathname = [r \in Reqs |-> <<>>]
  /\ hdr = [r \in Reqs |-> [inm |-> NoHeader, ims |-> NoDate]]
  /\ branch = [r \in Reqs |-> "none"]
  /\ loc = [r \in Reqs |-> NoLocals]
  /\ res = [r \in Reqs |-> NewResponse]
  /\ fsWatchListeners = <<>>
  /\ hot = [r \in Reqs |->
       [n |-> [s \in HotSpecifiers |-> 0], upd |-> [s \in HotSpecifiers |-> 0],
        torn |-> {}, dropped |-> 0]]
  /\ listeners = [r \in Reqs |-> <<>>]
  /\ sent = NothingSent
  /\ lastEvent = NoEvent
  /\ events = 0

(***************************************************************************)
(* handle(): entry.  The request's URL is rewritten and decoded, the       *)
(* response context is created and the headers are seeded; the code runs   *)
(* on to the first await of the request's branch without a suspension.     *)
(***************************************************************************)
\* The URL a client requests for the (encoded) path p.
RequestURL(p) == IF basePath = RootBase THEN p ELSE basePath \o p

Entered(r, p) ==
  /\ pc[r] = "idle"
  /\ \A q \in Reqs : q < r => pc[q] # "idle"
  /\ ~decodeURIThrows(rewriteURL(RequestURL(p), basePath))
  /\ pathname' = [pathname EXCEPT ![r] = decodeURI(rewriteURL(RequestURL(p), basePath))]

\* The response context after the headers are seeded.
SeededResponse ==
  [NewResponse EXCEPT !.cacheControl = IF isDev THEN "max-age=0" ELSE ""]

(***************************************************************************)
(* The HMR channel (handle(), the /_hmr branch).  A channel's watcher and  *)
(* socket are named by the handle() invocation that created them.          *)
(***************************************************************************)
ModifyEvent(specifier) == <<"modify-">> \o specifier

AddListener == [fn |-> "add", event |-> <<"add">>, specifier |-> <<>>]
RemoveListener == [fn |-> "remove", event |-> <<"remove">>, specifier |-> <<>>]
UpdateListener(specifier) ==
  [fn |-> "update", event |-> ModifyEvent(specifier), specifier |-> specifier]

\* EventEmitter removeAllListeners(event)
removeAllListeners(ls, event) == SelectSeq(ls, LAMBDA l : l.event # event)

\* { ...a, ...b }
Spread(a, b) ==
  [k \in DOMAIN a \cup DOMAIN b |-> IF k \in DOMAIN b THEN b[k] ELSE a[k]]

\* JSON.stringify(obj): the text frame whose document is obj.
JSONstringify(obj) == [kind |-> "text", json |-> obj]

\* Mutant: the payload is spread last and overrides the server's keys.
UpdateMessagePayloadLast(data, specifier, base) ==
  JSONstringify(Spread(
    [ type |-> "update",
      specifier |-> specifier,
      updateUrl |-> cleanPath(base \o <<"/", "_aleph", "/">>
                        \o trimBuiltinModuleExts(specifier) \o <<".js">>) ],
    data))

UpdateMessage(data, specifier, base) ==
  JSONstringify(Spread(data,
    [ type |-> "update",
      specifier |-> specifier,
      updateUrl |-> cleanPath(base \o <<"/", "_aleph", "/">>
                        \o trimBuiltinModuleExts(specifier) \o <<".js">>) ]))

\* app.getModule(specifier)
getModule(specifier) ==
  IF specifier \in DOMAIN modules /\ modules[specifier] # 0
    THEN Ref(specifier, modules[specifier])
    ELSE NoModule

\* Mutant: any typed message that names a module subscribes.
HotAcceptTargetAnyType(e) ==
  LET data == JSONparse(e)
      specifier == GetProp(data.value, "specifier")
  IN  IF data.threw \/ specifier.threw THEN NoModule
      ELSE IF isNEStringValue(specifier.value) THEN getModule(specifier.value.s)
      ELSE NoModule

\* The body of the receive loop's try block: the module a text event
\* subscribes to, or none when the event is dropped (a thrown error included).
HotAcceptTarget(e) ==
  LET data == JSONparse(e)
      type == GetProp(data.value, "type")
      specifier == GetProp(data.value, "specifier")
  IN  IF data.threw \/ type.threw THEN NoModule
      ELSE IF type.value = JStr(<<"hotAccept">>) /\ isNEStringValue(specifier.value)
        THEN getModule(specifier.value.s)
      ELSE NoModule

\* The listeners handle() registers.  st holds the watchers' listeners (ls)
\* and the frames sent on the sockets (out); w names the channel's watcher
\* and socket.
Pushed(st, w, frame) == [st.out EXCEPT ![w] = Append(@, frame)]

\* watcher.on('add', ...)
OnAdd(st, w, mod) == [st EXCEPT !.out = Pushed(st, w, JSONstringify(Spread(mod, [type |-> "add"])))]

\* Mutant: the remove listener only forwards the event.
OnRemoveKeepsListeners(st, w, specifier) ==
  [st EXCEPT !.out =
     Pushed(st, w, JSONstringify([type |-> "remove", specifier |-> specifier]))]

\* watcher.on('remove', ...)
OnRemove(st, w, specifier) ==
  [ ls |-> [st.ls EXCEPT ![w] = removeAllListeners(@, ModifyEvent(specifier))],
    out |-> Pushed(st, w, JSONstringify([type |-> "remove", specifier |-> specifier])) ]

\* watcher.on(`modify-${mod.specifier}`, ...)
OnModify(st, w, data, specifier) ==
  [st EXCEPT !.out = Pushed(st, w, UpdateMessage(data, specifier, basePath))]

\* EventEmitter emit on one watcher: its listeners for the event run in
\* registration order, over a copy of the list.
RECURSIVE RunListeners(_, _, _, _)
RunListeners(todo, w, arg, st) ==
  IF todo = <<>> THEN st
  ELSE LET l == Head(todo) IN
       RunListeners(Tail(todo), w, arg,
         CASE l.fn = "add" -> OnAdd(st, w, arg)
           [] l.fn = "remove" -> OnRemove(st, w, arg)
           [] OTHER -> OnModify(st, w, arg, l.specifier))

emit(w, event, arg, st) ==
  RunListeners(SelectSeq(st.ls[w], LAMBDA l : l.event = event), w, arg, st)

\* The application reports a file event to every registered watcher.
RECURSIVE EmitAll(_, _, _, _)
EmitAll(ws, event, arg, st) ==
  IF ws = <<>> THEN st
  ELSE EmitAll(Tail(ws), event, arg, emit(Head(ws), event, arg, st))

Emitted(event, arg) ==
  EmitAll(fsWatchListeners, event, arg, [ls |-> listeners, out |-> NothingSent])

\* Dispatch of /_hmr: the upgrade begins (await acceptWebSocket).
HmrUpgrade(r, p) ==
  /\ Entered(r, p)
  /\ Route(pathname'[r]) = "hmr"
  /\ res' = [res EXCEPT ![r] = SeededResponse]
  /\ pc' = [pc EXCEPT ![r] = "connecting"]
  /\ branch' = [branch EXCEPT ![r] = "hmr"]
  /\ Quiet
  /\ UNCHANGED <<appVars, modVars, hmrVars, hdr, loc, events>>

\* app.createFSWatcher(): a new watcher, registered with the application.
createFSWatcher(ws, w) == Append(ws, w)

\* The socket is accepted: the channel's watcher is created and listens to
\* add and remove.
HmrOpen(r) ==
  /\ pc[r] = "connecting"
  /\ fsWatchListeners' = createFSWatcher(fsWatchListeners, r)
  /\ listeners' = [listeners EXCEPT ![r] = <<AddListener, RemoveListener>>]
  /\ pc' = [pc EXCEPT ![r] = "open"]
  /\ Quiet
  /\ UNCHANGED <<appVars, modVars, hot, pathname, hdr, branch, loc, res, events>>

\* acceptWebSocket throws: the top-level catch answers.
HmrAcceptFail(r) ==
  /\ pc[r] = "connecting"
  /\ \E err \in Errors : res' = [res EXCEPT ![r] = Catch(@, err)]
  /\ pc' = [pc EXCEPT ![r] = "done"]
  /\ Quiet
  /\ UNCHANGED <<appVars, modVars, hmrVars, pathname, hdr, branch, loc, events>>

\* app.removeFSWatcher(watcher)
removeFSWatcher(ws, w) == SelectSeq(ws, LAMBDA x : x # w)

RECURSIVE SumOver(_, _)
SumOver(f, S) ==
  IF S = {} THEN 0
  ELSE LET x == CHOOSE x \in S : TRUE IN f[x] + SumOver(f, S \ {x})

\* The modify listeners registered with all watchers.
Subscriptions ==
  SumOver([r \in Reqs |-> Len(SelectSeq(listeners[r], LAMBDA l : l.fn = "update"))],
          Reqs)

\* watcher.on(`modify-${mod.specifier}`, ...) for the module a hotAccept names.
Subscribe(r, mod) ==
  /\ Subscriptions < MaxSubscriptions
  /\ listeners' = [listeners EXCEPT ![r] = Append(@, UpdateListener(mod.specifier))]
  /\ hot' = [hot EXCEPT ![r].n[mod.specifier] = @ + 1, ![r].upd[mod.specifier] = 0]

\* The number of modify listeners of channel r.
Subscribed(r) == Len(SelectSeq(listeners[r], LAMBDA l : l.fn = "update"))

\* Mutant: the loop ends without removing the watcher.
LoopExitLeavesWatcher(r) ==
  /\ pc' = [pc EXCEPT ![r] = "closed"]
  /\ UNCHANGED <<fsWatchListeners, listeners>>

\* The loop ends on a close event: the channel's watcher is removed.
LoopExit(r) ==
  /\ fsWatchListeners' = removeFSWatcher(fsWatchListeners, r)
  /\ listeners' = [listeners EXCEPT ![r] = <<>>]
  /\ pc' = [pc EXCEPT ![r] = "closed"]

\* One iteration of the receive loop on event e.
HmrReceive(r, e) ==
  /\ pc[r] = "open"
  /\ IF isNEStringEvent(e) THEN
       /\ IF HotAcceptTarget(e) # NoModule
            THEN Subscribe(r, Deref(HotAcceptTarget(e)))
            ELSE /\ hot' = [hot EXCEPT ![r].dropped = IF Subscribed(r) > 0 THEN 1 ELSE @]
                 /\ UNCHANGED listeners
       /\ UNCHANGED <<fsWatchListeners, pc>>
     ELSE IF isWebSocketCloseEvent(e) THEN
       /\ LoopExit(r)
       /\ UNCHANGED hot
     ELSE
       /\ hot' = [hot EXCEPT ![r].dropped =
                    IF e.kind = "text" /\ Subscribed(r) > 0 THEN 1 ELSE @]
       /\ UNCHANGED <<fsWatchListeners, listeners, pc>>
  /\ Quiet
  /\ UNCHANGED <<appVars, modVars, pathname, hdr, branch, loc, res, events>>

\* The socket's iteration throws (the transport fails): the top-level catch
\* answers on the request context; no code after the loop runs.
HmrSocketError(r) ==
  /\ pc[r] = "open"
  /\ \E err \in Errors : res' = [res EXCEPT ![r] = Catch(@, err)]
  /\ pc' = [pc EXCEPT ![r] = "failed"]
  /\ Quiet
  /\ UNCHANGED <<appVars, modVars, hmrVars, pathname, hdr, branch, loc, events>>

(***************************************************************************)
(* The application's file watcher (server/app.ts): a file event changes    *)
(* the module table and is reported to every watcher.                      *)
(***************************************************************************)
\* A new record replaces the module's record in the table.
Compiled(s) ==
  /\ heap' = [heap EXCEPT ![s] = Append(@, NewModule(s, Len(@) + 1))]
  /\ modules' = [modules EXCEPT ![s] = Len(heap[s]) + 1]

\* What the application passes with a modify event: change information, here
\* with keys named like those of the update message.
ModifyPayloads ==
  { [refreshPage |-> TRUE, type |-> "remove", specifier |-> GoneTsx,
     updateUrl |-> <<"/", "evil", ".js">>] }

Reported(kind, s, st) ==
  /\ listeners' = st.ls
  /\ sent' = st.out
  /\ lastEvent' = FileEvent(kind, s)
  /\ events' = events + 1

WatchAdd(s) ==
  /\ events < MaxEvents
  /\ modules[s] = 0
  /\ Compiled(s)
  /\ Reported("add", s, Emitted(<<"add">>, [specifier |-> s]))
  /\ UNCHANGED <<appVars, fsWatchListeners, hot, pc, pathname, hdr, branch, loc, res>>

WatchModify(s, data) ==
  /\ events < MaxEvents
  /\ modules[s] # 0
  /\ Compiled(s)
  /\ Reported("modify", s, Emitted(ModifyEvent(s), data))
  /\ hot' = [r \in Reqs |->
       IF s \in HotSpecifiers
         THEN [hot[r] EXCEPT !.upd[s] =
                 LET n == @ + Len(SelectSeq(sent'[r], LAMBDA f :
                                     f.json.type = "update" /\ f.json.specifier = s))
                 IN  IF n < 2 THEN n ELSE 2]
         ELSE hot[r]]
  /\ UNCHANGED <<appVars, fsWatchListeners, pc, pathname, hdr, branch, loc, res>>

WatchRemove(s) ==
  /\ events < MaxEvents
  /\ modules[s] # 0
  /\ modules' = [modules EXCEPT ![s] = 0]
  /\ Reported("remove", s, Emitted(<<"remove">>, s))
  /\ hot' = [r \in Reqs |->
       IF pc[r] = "open" /\ s \in HotSpecifiers
         THEN [hot[r] EXCEPT !.n[s] = 0,
                 !.torn = IF hot[r].n[s] > 0 THEN @ \cup {s} ELSE @]
         ELSE hot[r]]
  /\ UNCHANGED <<appVars, heap, fsWatchListeners, pc, pathname, hdr, branch, loc, res>>

HmrNext ==
  \/ \E r \in Chans : HmrUpgrade(r, HmrPath)
  \/ \E r \in Chans : HmrOpen(r)
  \/ \E r \in Chans : HmrAcceptFail(r)
  \/ \E r \in Chans, e \in SocketEvents : HmrReceive(r, e)
  \/ \E r \in Chans : HmrSocketError(r)
  \/ \E s \in {IndexTsx, AppCss} : WatchAdd(s)
  \/ \E s \in {IndexTsx, AppCss}, data \in ModifyPayloads : WatchModify(s, data)
  \/ \E s \in {IndexTsx, AppCss} : WatchRemove(s)

InitHmr == Init /\ isDev

SpecHmr == InitHmr /\ [][HmrNext]_vars

(***************************************************************************)
(* Properties of the HMR channel.                                          *)
(***************************************************************************)
ModifyListeners(r, s) == SelectSeq(listeners[r], LAMBDA l : l.event = ModifyEvent(s))

Registered(r) == Len(SelectSeq(fsWatchListeners, LAMBDA w : w = r))

\* The build-output URL of a hot module under the configured base path.
ExpectedUpdateUrl(s) ==
  LET url == CASE s = IndexTsx -> <<"/", "_aleph", "/", "pages", "/", "index", ".js">>
               [] s = AppCss -> <<"/", "_aleph", "/", "style", "/", "app", ".css", ".js">>
               [] OTHER -> <<"/", "_aleph", "/", "pages", "/", "gone", ".js">>
  IN  IF basePath = RootBase THEN url ELSE <<"/", "docs">> \o url

IsUpdateFrame(frame, s) ==
  /\ frame.kind = "text"
  /\ frame.json.type = "update"
  /\ frame.json.specifier = s
  /\ frame.json.updateUrl = ExpectedUpdateUrl(s)
  /\ "refreshPage" \in DOMAIN frame.json

\* C6 (as amended): on an open channel with one hotAccept for a module, every
\* modify event of that module sends exactly one update frame, whose type,
\* specifier and updateUrl are the server's and not the payload's; the
\* subscription persists, so each further event sends one more frame.
C6_OneUpdatePerFire ==
  \A r \in Reqs, s \in HotSpecifiers :
    (lastEvent = FileEvent("modify", s) /\ pc[r] = "open" /\ hot[r].n[s] = 1)
      => /\ Len(sent[r]) = 1
         /\ IsUpdateFrame(sent[r][1], s)
         /\ hot[r].upd[s] >= 1

\* C6 as stated: the update is delivered once, a second modify event before a
\* fresh hotAccept delivering nothing more.
C6_DeliveredOnce ==
  \A r \in Reqs, s \in HotSpecifiers :
    (pc[r] = "open" /\ hot[r].n[s] = 1) => hot[r].upd[s] <= 1

\* A second modify event has sent a second update on one subscription.
C6_Witness ==
  \E r \in Reqs :
    /\ lastEvent = FileEvent("modify", IndexTsx)
    /\ pc[r] = "open"
    /\ hot[r].n[IndexTsx] = 1
    /\ hot[r].upd[IndexTsx] = 2
    /\ Len(sent[r]) = 1

\* C7: a channel holds at most one modify listener per specifier, and a modify
\* event of a subscribed module sends a single update frame on the channel.
C7_OneSubscription ==
  \A r \in Reqs, s \in HotSpecifiers :
    /\ Len(ModifyListeners(r, s)) <= 1
    /\ (lastEvent = FileEvent("modify", s) /\ pc[r] = "open" /\ hot[r].n[s] >= 1)
         => Len(sent[r]) = 1

\* C8: a remove event leaves an open channel no modify listener for the
\* specifier and sends one remove frame; a later modify event of the specifier
\* sends nothing on a channel with no hotAccept since the remove.
C8_RemoveTearsDown ==
  \A r \in Reqs, s \in HotSpecifiers :
    /\ (lastEvent = FileEvent("remove", s) /\ pc[r] = "open")
         => /\ ModifyListeners(r, s) = <<>>
            /\ Len(sent[r]) = 1
            /\ sent[r][1].json = [type |-> "remove", specifier |-> s]
    /\ (lastEvent = FileEvent("modify", s) /\ pc[r] = "open" /\ hot[r].n[s] = 0)
         => sent[r] = <<>>

\* The module was removed while subscribed, exists again and is modified.
C8_Witness ==
  \E r \in Reqs :
    /\ lastEvent = FileEvent("modify", IndexTsx)
    /\ pc[r] = "open"
    /\ IndexTsx \in hot[r].torn
    /\ hot[r].n[IndexTsx] = 0
    /\ sent[r] = <<>>

\* C9: a channel has no watcher before it is open, exactly one while it is
\* open, and none, with no listener left and no frame sent, once it is
\* closed; it opens from connecting and closes from open.
C9_Lifecycle ==
  /\ [](\A r \in Reqs :
          /\ pc[r] \in {"idle", "connecting"} => Registered(r) = 0 /\ listeners[r] = <<>>
          /\ pc[r] = "open" => Registered(r) = 1
          /\ pc[r] = "closed" =>
               Registered(r) = 0 /\ listeners[r] = <<>> /\ sent[r] = <<>>)
  /\ [][\A r \in Reqs :
          /\ (pc'[r] = "connecting" /\ pc[r] # "connecting") => pc[r] = "idle"
          /\ (pc'[r] = "open" /\ pc[r] # "open") => pc[r] = "connecting"
          /\ (pc'[r] = "closed" /\ pc[r] # "closed") => pc[r] = "open"
          /\ pc[r] = "closed" => pc'[r] = "closed"]_vars

\* A subscribed channel was closed and its module is modified afterwards.
C9_Witness ==
  \E r \in Reqs :
    /\ pc[r] = "closed"
    /\ hot[r].n[IndexTsx] >= 1
    /\ lastEvent = FileEvent("modify", IndexTsx)
    /\ sent[r] = <<>>

\* The text messages C10 is about: no JSON, not a hotAccept with a non-empty
\* string specifier, or a specifier of no known module.
Malformed(e) ==
  /\ e.kind = "text"
  /\ \/ e.syntax # "ok"
     \/ e.doc.t # "object"
     \/ e.doc.type # JStr(<<"hotAccept">>)
     \/ e.doc.specifier.t # "string"
     \/ e.doc.specifier.s = <<>>
     \/ e.doc.specifier.s \notin DOMAIN modules
     \/ modules[e.doc.specifier.s] = 0

\* C10: receiving a malformed text message registers no listener, sends
\* nothing, answers nothing and leaves the channel open.
C10_MalformedIgnored ==
  [][\A r \in Reqs, e \in SocketEvents :
       (HmrReceive(r, e) /\ Malformed(e))
         => /\ listeners' = listeners
            /\ fsWatchListeners' = fsWatchListeners
            /\ sent' = NothingSent
            /\ res' = res
            /\ pc'[r] = "open"
            /\ hot'[r].n = hot[r].n]_vars

\* A message was dropped on a subscribed channel, which is open and holds
\* its listeners.
C10_Witness ==
  \E r \in Reqs :
    /\ pc[r] = "open"
    /\ hot[r].dropped = 1
    /\ Subscribed(r) = 2
    /\ Len(ModifyListeners(r, IndexTsx)) = 1


(***************************************************************************)
(* handle(): requests and the compiled modules (/_aleph/*.js).             *)
(***************************************************************************)
\* The invocations that have answered.
Done == {q \in Reqs : pc[q] = "done"}

\* The conditional headers a client sends: none, values of its own, and
\* values earlier responses carried.
NoHeaders == [inm |-> NoHeader, ims |-> NoDate]
ETagHeaders ==
  {[inm |-> x, ims |-> NoDate] :
     x \in {NoHeader, <<"md5", "stale">>} \cup {res[q].etag : q \in Done}}
DateHeaders ==
  {[inm |-> NoHeader, ims |-> y] :
     y \in {NoDate, "2015-10-21T07:28:00.000Z"}
            \cup {res[q].lastModified : q \in Done}}

Asked(r, p, h) ==
  /\ Entered(r, p)
  /\ hdr' = [hdr EXCEPT ![r] = h]

\* A step of handle() outside the HMR branch.
Plain == Quiet /\ UNCHANGED <<hmrVars, events>>

AlephDir == <<"/", "_aleph">>
DataPrefix == <<"/", "_aleph", "/", "data", "/">>
JsType == "application/javascript; charset=utf-8"
JsonType == "application/json; charset=utf-8"
HtmlType == "text/html; charset=utf-8"

\* The sub-cases of the /_aleph/ branch, in the order the code tests them.
DistCase(p) ==
  IF startsWith(p, DataPrefix) /\ endsWith(p, <<".json">>) THEN "data"
  ELSE IF trimPrefix(p, AlephDir) = <<"/", "main", ".js">> THEN "main"
  ELSE IF endsWith(trimPrefix(p, AlephDir), <<".js">>) THEN "module"
  ELSE "file"

\* app.findModule(({ jsFile }) => jsFile === relPath)
findModule(relPath) ==
  LET hit == {s \in Specifiers :
                modules[s] # 0 /\ heap[s][modules[s]].jsFile = relPath}
  IN  IF hit = {} THEN NoModule
      ELSE LET s == CHOOSE s \in hit : TRUE IN Ref(s, modules[s])

\* The compilations made so far of the sources of a build-output path.
Compilations(relPath) ==
  LET ns == {Len(heap[s]) :
               s \in {s \in Specifiers : trimBuiltinModuleExts(s) \o <<".js">> = relPath}}
  IN  IF ns = {} THEN 0 ELSE CHOOSE n \in ns : \A k \in ns : k <= n

\* Dispatch of /_aleph/*.js: the module is looked up in the table.
FindModule(r, p, h) ==
  /\ Asked(r, p, h)
  /\ Route(pathname'[r]) = "dist"
  /\ DistCase(pathname'[r]) = "module"
  /\ LET relPath == trimPrefix(pathname'[r], AlephDir)
         module == findModule(relPath)
     IN  /\ loc' = [loc EXCEPT ![r] =
                [NoLocals EXCEPT !.module = module, !.after = Done,
                                 !.epoch = Compilations(relPath), !.version = VERSION]]
         /\ pc' = [pc EXCEPT ![r] =
                IF module # NoModule THEN "getModuleJS"
                ELSE IF isDev THEN "probe" ELSE "file"]
  /\ res' = [res EXCEPT ![r] = SeededResponse]
  /\ branch' = [branch EXCEPT ![r] = "dist"]
  /\ Plain
  /\ UNCHANGED <<appVars, modVars>>

\* The candidate sources of a build-output path, in probing order.
Candidates(relPath) ==
  [i \in 1..(Len(builtinModuleExts) + 1) |->
     trimSuffix(relPath, <<".js">>)
       \o (IF i <= Len(builtinModuleExts) THEN <<builtinModuleExts[i]>> ELSE <<>>)]

\* Mutant: the loop does not stop at the first file it finds.
ProbedPastFirstHit(relPath) == Candidates(relPath)

\* The candidates the loop tests: up to the first that exists in the working
\* directory.
Probed(relPath) ==
  LET cs == Candidates(relPath)
      hits == {i \in DOMAIN cs : existsFile(join(WorkingDir, cs[i]))}
  IN  IF hits = {} THEN cs
      ELSE SubSeq(cs, 1, CHOOSE i \in hits : \A j \in hits : i <= j)

\* Development mode, no module in the table: the sources are probed.
Probe(r) ==
  /\ pc[r] = "probe"
  /\ LET probed == Probed(trimPrefix(pathname[r], AlephDir))
     IN  /\ loc' = [loc EXCEPT ![r].probed = probed]
         /\ pc' = [pc EXCEPT ![r] =
                IF existsFile(join(WorkingDir, probed[Len(probed)]))
                  THEN "compile" ELSE "file"]
  /\ Plain
  /\ UNCHANGED <<appVars, modVars, pathname, hdr, branch, res>>

\* app.compile(specifier) resolves with the new record.
Compile(r) ==
  /\ pc[r] = "compile"
  /\ LET specifier == loc[r].probed[Len(loc[r].probed)]
     IN  /\ Compiled(specifier)
         /\ loc' = [loc EXCEPT ![r].module = Ref(specifier, Len(heap[specifier]) + 1)]
  /\ pc' = [pc EXCEPT ![r] = "getModuleJS"]
  /\ Plain
  /\ UNCHANGED <<appVars, pathname, hdr, branch, res>>

\* app.getModuleJS(module): the record's output, or null.
getModuleJS(module) == module.jsBuffer

\* Mutant: the build version is left out of the digest.
ETagWithoutVersion(module) ==
  <<"md5", IF module.hash # "" THEN module.hash ELSE module.sourceHash>>

\* createHash('md5').update(VERSION).update(module.hash || module.sourceHash)
\* .toString(): the digest of the concatenated input, named by that input.
ETag(module) ==
  <<"md5", VERSION \o (IF module.hash # "" THEN module.hash ELSE module.sourceHash)>>

\* app.isHMRable(specifier): local modules of a built-in type or of a loader
\* that accepts HMR.
isHMRable(specifier) ==
  /\ ~startsWith(specifier, <<"/", "-", "/">>)
  /\ \/ \E i \in DOMAIN builtinModuleExts : endsWith(specifier, <<builtinModuleExts[i]>>)
     \/ endsWith(specifier, <<".css">>)

\* Mutant: every module is taken to have server-only code.
HasServerHooksAlways(module) == TRUE

\* module.denoHooks?.length || module.ssrPropsFn || module.ssgPathsFn
HasServerHooks(module) ==
  Len(module.denoHooks) > 0 \/ module.ssrPropsFn # "" \/ module.ssgPathsFn # ""

\* app.getCodeInjects('hmr', specifier): the transforms plugins registered.
getCodeInjects(specifier) ==
  IF endsWith(specifier, <<".tsx">>) \/ endsWith(specifier, <<".jsx">>)
    THEN <<"refresh", "sig">> ELSE <<>>

\* transform(specifier, code).code
Transform(name, specifier, code) ==
  IF name = "refresh"
    THEN << <<"import", "refresh">> >> \o code \o << <<"refresh.register", Name(specifier)>> >>
    ELSE code \o << <<"sig", VTag(Len(code))>> >>

\* Mutant: every transform is given the code before any transform.
ForEachOnSource(transforms, specifier, code) ==
  IF transforms = <<>> THEN code
  ELSE Transform(transforms[Len(transforms)], specifier, code)

\* transforms.forEach(transform => { code = transform(specifier, code).code })
RECURSIVE ForEach(_, _, _)
ForEach(transforms, specifier, code) ==
  IF transforms = <<>> THEN code
  ELSE ForEach(Tail(transforms), specifier, Transform(Head(transforms), specifier, code))

\* JSON.stringify of a string: quoted, quotes and backslashes escaped.
JSONstringifyString(s) ==
  <<"\"">> \o [i \in DOMAIN s |->
                 IF s[i] = "\"" THEN "\\\"" ELSE IF s[i] = "\\" THEN "\\\\" ELSE s[i]]
    \o <<"\"">>

\* The code of a hot module: the transforms, then the hot context around it.
HotCode(specifier, code) ==
  << <<"import.meta.hot = window.$createHotContext(">>
       \o JSONstringifyString(specifier) \o <<");">>,
     <<>> >>
    \o ForEach(getCodeInjects(specifier), specifier, code)
    \o << <<>>, <<"import.meta.hot.accept();">> >>

\* Mutant: the variant is stored on every record of the module.
AssignToEveryRecord(module, csrCode) ==
  [heap EXCEPT ![module.s] = [n \in DOMAIN @ |-> [@[n] EXCEPT !.csrCode = csrCode]]]

\* Mutant: the variant is stored on the record the table holds now.
AssignToTableRecord(module, csrCode) ==
  IF modules[module.s] = 0 THEN heap
  ELSE [heap EXCEPT ![module.s][modules[module.s]].csrCode = csrCode]

\* Object.assign(module, { csrCode })
Assign(module, csrCode) == [heap EXCEPT ![module.s][module.n].csrCode = csrCode]

\* getModuleJS has resolved: the conditional check, then the body is sent or
\* the server-only code is to be stripped first.
ServeModule(r) ==
  /\ pc[r] = "getModuleJS"
  /\ LET module == Deref(loc[r].module)
         content == getModuleJS(module)
         etag == ETag(module)
         tagged == [res[r] EXCEPT !.etag = etag]
     IN  IF content = Null THEN
           /\ pc' = [pc EXCEPT ![r] = "file"]
           /\ UNCHANGED <<res, loc>>
         ELSE IF etag = hdr[r].inm THEN
           /\ res' = [res EXCEPT ![r] = Send(@, 304, <<>>, "")]
           /\ loc' = [loc EXCEPT ![r].content = content]
           /\ pc' = [pc EXCEPT ![r] = "done"]
         ELSE IF isDev /\ isHMRable(module.specifier) THEN
           IF HasServerHooks(module) /\ module.csrCode = Absent THEN
             /\ res' = [res EXCEPT ![r] = tagged]
             /\ loc' = [loc EXCEPT ![r].content = content, ![r].code = content]
             /\ pc' = [pc EXCEPT ![r] = "stripSsrCode"]
           ELSE
             /\ res' = [res EXCEPT ![r] =
                  Send(tagged, 200,
                       HotCode(module.specifier,
                               IF HasServerHooks(module) THEN module.csrCode ELSE content),
                       JsType)]
             /\ loc' = [loc EXCEPT ![r].content = content,
                          ![r].code = IF HasServerHooks(module) THEN module.csrCode
                                      ELSE content]
             /\ pc' = [pc EXCEPT ![r] = "done"]
         ELSE
           /\ res' = [res EXCEPT ![r] = Send(tagged, 200, content, JsType)]
           /\ loc' = [loc EXCEPT ![r].content = content]
           /\ pc' = [pc EXCEPT ![r] = "done"]
  /\ Plain
  /\ UNCHANGED <<appVars, modVars, pathname, hdr, branch>>

\* stripSsrCode has resolved: the variant is stored on the record the
\* invocation holds and sent in the hot context.
Strip(r) ==
  /\ pc[r] = "stripSsrCode"
  /\ LET specifier == Deref(loc[r].module).specifier
         csrCode == stripSsrCode(specifier, loc[r].code)
     IN  /\ heap' = Assign(loc[r].module, csrCode)
         /\ loc' = [loc EXCEPT ![r].code = csrCode, ![r].stripped = TRUE]
         /\ res' = [res EXCEPT ![r] = Send(@, 200, HotCode(specifier, csrCode), JsType)]
  /\ pc' = [pc EXCEPT ![r] = "done"]
  /\ Plain
  /\ UNCHANGED <<appVars, modules, pathname, hdr, branch>>

\* compile, getModuleJS or stripSsrCode rejects: the top-level catch answers.
Thrown(r) ==
  /\ pc[r] \in {"compile", "getModuleJS", "stripSsrCode"}
  /\ \E err \in Errors : res' = [res EXCEPT ![r] = Catch(@, err)]
  /\ pc' = [pc EXCEPT ![r] = "done"]
  /\ Plain
  /\ UNCHANGED <<appVars, modVars, pathname, hdr, branch, loc>>

(***************************************************************************)
(* handle(): files of the build directory and of the public directory.     *)
(***************************************************************************)
\* Deno.lstatSync(filePath).mtime.toUTCString()
MTime(filePath) ==
  IF filePath[Len(filePath)] = ".ico" THEN "Tue, 20 Oct 2015 18:03:00 GMT"
  ELSE "Wed, 21 Oct 2015 07:28:00 GMT"

\* Deno.readTextFile / Deno.readFileSync
readFile(filePath) == << <<"contents of">> \o filePath >>

\* server/mime.ts getContentType: by the file's extension.
getContentType(filePath) ==
  LET ext == filePath[Len(filePath)]
  IN  CASE ext = ".js" -> "application/javascript"
        [] ext = ".json" -> "application/json"
        [] ext = ".png" -> "image/png"
        [] ext = ".ico" -> "image/x-icon"
        [] OTHER -> "application/octet-stream"

\* Mutant: the body is read before the modification time is compared.
FileResponseReadFirst(rs, filePath, ims) ==
  [ rs |-> IF MTime(filePath) = ims THEN Send(rs, 304, <<>>, "")
           ELSE Send([rs EXCEPT !.lastModified = MTime(filePath)], 200,
                     readFile(filePath), getContentType(filePath)),
    read |-> <<filePath>> ]

\* A file is served: 304 when If-Modified-Since equals its modification
\* time, else the header is set and the body read and sent.  The response
\* context afterwards, and the files read.
FileResponse(rs, filePath, ims) ==
  IF MTime(filePath) = ims
    THEN [rs |-> Send(rs, 304, <<>>, ""), read |-> <<>>]
    ELSE [rs |-> Send([rs EXCEPT !.lastModified = MTime(filePath)], 200,
                      readFile(filePath), getContentType(filePath)),
          read |-> <<filePath>>]

\* Dispatch of the other paths under /_aleph/: the build directory is tested.
DistFile(r, p, h) ==
  /\ Asked(r, p, h)
  /\ Route(pathname'[r]) = "dist"
  /\ DistCase(pathname'[r]) = "file"
  /\ pc' = [pc EXCEPT ![r] = "file"]
  /\ res' = [res EXCEPT ![r] = SeededResponse]
  /\ branch' = [branch EXCEPT ![r] = "dist"]
  /\ Plain
  /\ UNCHANGED <<appVars, modVars, loc>>

\* The build-directory file is served, or 404.
BuildFile(r) ==
  /\ pc[r] = "file"
  /\ LET filePath == join(BuildDir, trimPrefix(pathname[r], AlephDir))
         file == FileResponse(res[r], filePath, hdr[r].ims)
     IN  IF existsFile(filePath) THEN
           /\ res' = [res EXCEPT ![r] = file.rs]
           /\ loc' = [loc EXCEPT ![r].read = file.read]
         ELSE
           /\ res' = [res EXCEPT ![r] = Send(@, 404, << <<"not found">> >>, "")]
           /\ UNCHANGED loc
  /\ pc' = [pc EXCEPT ![r] = "done"]
  /\ Plain
  /\ UNCHANGED <<appVars, modVars, pathname, hdr, branch>>

\* Dispatch of a path with a file in the public directory.
ServePublic(r, p, h) ==
  /\ Asked(r, p, h)
  /\ Route(pathname'[r]) = "public"
  /\ pc' = [pc EXCEPT ![r] = "public"]
  /\ res' = [res EXCEPT ![r] = SeededResponse]
  /\ branch' = [branch EXCEPT ![r] = "public"]
  /\ Plain
  /\ UNCHANGED <<appVars, modVars, loc>>

\* existsFile has resolved: the public file is served.
PublicFile(r) ==
  /\ pc[r] = "public"
  /\ LET file == FileResponse(res[r], join(PublicDir, pathname[r]), hdr[r].ims)
     IN  /\ res' = [res EXCEPT ![r] = file.rs]
         /\ loc' = [loc EXCEPT ![r].read = file.read]
  /\ pc' = [pc EXCEPT ![r] = "done"]
  /\ Plain
  /\ UNCHANGED <<appVars, modVars, pathname, hdr, branch>>

(***************************************************************************)
(* handle(): SSR data, the bootstrap script, API routes and pages.         *)
(***************************************************************************)
\* util.atobUrl on the names the clients use.
atobUrl(s) ==
  IF s = <<"L2Fib3V0">> THEN <<"/", "about">>
  ELSE IF s = <<"L25vbmU">> THEN <<"/", "none">>
  ELSE s

\* app.getSSRData({ pathname }): the page's data, or null.
getSSRData(path) ==
  IF path = <<"/", "about">> THEN << <<"{\"title\":\"about\"}">> >> ELSE Null

\* What a collaborator's promise does.
Outcomes == {"resolves", "rejects"}

\* Dispatch of /_aleph/data/*.json.
ServeSSRData(r, p, h, outcome) ==
  /\ Asked(r, p, h)
  /\ Route(pathname'[r]) = "dist"
  /\ DistCase(pathname'[r]) = "data"
  /\ LET path == atobUrl(trimSuffix(trimPrefix(pathname'[r], DataPrefix), <<".json">>))
         data == getSSRData(path)
         rs == SeededResponse
     IN  res' = [res EXCEPT ![r] =
           IF outcome = "rejects" THEN Catch(rs, CHOOSE err \in Errors : TRUE)
           ELSE IF data = Null THEN Send(rs, 404, << <<"null">> >>, JsonType)
           ELSE Send(rs, 200, data, JsonType)]
  /\ pc' = [pc EXCEPT ![r] = "done"]
  /\ branch' = [branch EXCEPT ![r] = "data"]
  /\ Plain
  /\ UNCHANGED <<appVars, modVars, loc>>

\* app.createMainJS(false)
createMainJS == << <<"bootstrap">> >>

\* Dispatch of /_aleph/main.js.
ServeMainJS(r, p, h) ==
  /\ Asked(r, p, h)
  /\ Route(pathname'[r]) = "dist"
  /\ DistCase(pathname'[r]) = "main"
  /\ res' = [res EXCEPT ![r] = Send(SeededResponse, 200, createMainJS, JsType)]
  /\ pc' = [pc EXCEPT ![r] = "done"]
  /\ branch' = [branch EXCEPT ![r] = "dist"]
  /\ Plain
  /\ UNCHANGED <<appVars, modVars, loc>>

\* app.getAPIRoute({ pathname, search }): the route's module, or null.
getAPIRoute(p) ==
  IF p = <<"/", "api", "/", "ping">> THEN "ping.ts"
  ELSE IF p = <<"/", "api", "/", "bad">> THEN "bad.ts"
  ELSE "null"

\* util.isFunction of the default export of an API module.
isFunctionDefault(module) == module = "ping.ts"

\* What loading a route's module and invoking its handler with the request
\* context does.
HandlerRuns == {"import throws", "responds", "throws", "responds and throws", "returns"}

JsonBody(status, message) == << <<"{\"status\":", status, ",\"message\":", message, "}">> >>

\* Mutant: the error of the handler is left to the top-level catch.
CaughtAtTopLevel(rs, err) == [rs |-> Catch(rs, err), logged |-> <<>>]

\* The catch around the load and the call: the response and the log entry.
Caught(rs, err) ==
  [ rs |-> Send(rs, 500, JsonBody("500", err.message), JsonType),
    logged |-> <<"invoke API:", err.message>> ]

\* The route's module is loaded and its default export called: the response
\* context and the error log afterwards.
Handled(rs, module, run) ==
  LET err == CHOOSE e \in Errors : TRUE
      answered == Send(rs, 200, << <<"{\"pong\":true}">> >>, JsonType)
      quiet(x) == [rs |-> x, logged |-> <<>>]
  IN  IF run = "import throws" THEN Caught(rs, err)
      ELSE IF ~isFunctionDefault(module)
        THEN quiet(Send(rs, 500, JsonBody("500", "bad api handler"), JsonType))
      ELSE IF run = "responds" THEN quiet(answered)
      ELSE IF run = "throws" THEN Caught(rs, err)
      ELSE IF run = "responds and throws" THEN Caught(answered, err)
      ELSE quiet(rs)

\* Dispatch of /api/*.
ServeAPI(r, p, h, outcome, run) ==
  /\ Asked(r, p, h)
  /\ Route(pathname'[r]) = "api"
  /\ LET route == getAPIRoute(pathname'[r])
         rs == SeededResponse
         handled == Handled(rs, route, run)
     IN  IF outcome = "rejects" THEN
           /\ res' = [res EXCEPT ![r] = Catch(rs, CHOOSE err \in Errors : TRUE)]
           /\ loc' = [loc EXCEPT ![r] = NoLocals]
         ELSE IF route = "null" THEN
           /\ res' = [res EXCEPT ![r] =
                Send(rs, 404, JsonBody("404", "not found"), JsonType)]
           /\ loc' = [loc EXCEPT ![r] = NoLocals]
         ELSE
           /\ res' = [res EXCEPT ![r] = handled.rs]
           /\ loc' = [loc EXCEPT ![r] = [NoLocals EXCEPT !.logged = handled.logged]]
  /\ pc' = [pc EXCEPT ![r] = "done"]
  /\ branch' = [branch EXCEPT ![r] = "api"]
  /\ Plain
  /\ UNCHANGED <<appVars, modVars>>

\* app.getPageHTML({ pathname, search }): the status and the document.
getPageHTML(p) ==
  IF p = <<"/", "about">>
    THEN [status |-> 200, html |-> << <<"<html>">> \o p >>]
    ELSE [status |-> 404, html |-> << <<"<html>", "404">> >>]

\* Dispatch of every other path: the page is rendered.
ServePage(r, p, h, outcome) ==
  /\ Asked(r, p, h)
  /\ Route(pathname'[r]) = "page"
  /\ LET page == getPageHTML(pathname'[r])
         rs == SeededResponse
     IN  res' = [res EXCEPT ![r] =
           IF outcome = "rejects" THEN Catch(rs, CHOOSE err \in Errors : TRUE)
           ELSE Send(rs, page.status, page.html, HtmlType)]
  /\ pc' = [pc EXCEPT ![r] = "done"]
  /\ branch' = [branch EXCEPT ![r] = "page"]
  /\ Plain
  /\ UNCHANGED <<appVars, modVars, loc>>

\* decodeURI throws before the try block is entered: handle() rejects and
\* nothing is sent.
EnterFail(r, p) ==
  /\ pc[r] = "idle"
  /\ \A q \in Reqs : q < r => pc[q] # "idle"
  /\ decodeURIThrows(rewriteURL(RequestURL(p), basePath))
  /\ pc' = [pc EXCEPT ![r] = "rejected"]
  /\ Plain
  /\ UNCHANGED <<appVars, modVars, pathname, hdr, branch, loc, res>>

\* A new build of the server replaces the running one while no request is
\* in flight: the version changes, the sources and their hashes do not, and
\* what the old process kept in memory is gone.
Redeploy ==
  /\ VERSION # "0.3.1"
  /\ \A r \in Reqs : pc[r] \in {"idle", "done", "rejected"}
  /\ VERSION' = "0.3.1"
  /\ heap' = [s \in Specifiers |->
       [i \in DOMAIN heap[s] |-> [heap[s][i] EXCEPT !.csrCode = Absent]]]
  /\ Plain
  /\ UNCHANGED <<isDev, basePath, modules, pc, pathname, hdr, branch, loc, res>>

(***************************************************************************)
(* Specifications.                                                         *)
(***************************************************************************)
\* Every request path, every branch; conditional headers on the requests
\* whose branch reads them.
DispatchNext ==
  \/ \E r \in Reqs : HmrUpgrade(r, HmrPath)
  \/ \E r \in Reqs, p \in Pathnames, o \in Outcomes : ServeSSRData(r, p, NoHeaders, o)
  \/ \E r \in Reqs, p \in Pathnames : ServeMainJS(r, p, NoHeaders)
  \/ \E r \in Reqs, p \in Pathnames, h \in ETagHeaders \cup DateHeaders : FindModule(r, p, h)
  \/ \E r \in Reqs : Probe(r)
  \/ \E r \in Reqs : Compile(r)
  \/ \E r \in Reqs : ServeModule(r)
  \/ \E r \in Reqs : Strip(r)
  \/ \E r \in Reqs : Thrown(r)
  \/ \E r \in Reqs, p \in Pathnames, h \in DateHeaders : DistFile(r, p, h)
  \/ \E r \in Reqs : BuildFile(r)
  \/ \E r \in Reqs, p \in Pathnames, h \in DateHeaders : ServePublic(r, p, h)
  \/ \E r \in Reqs : PublicFile(r)
  \/ \E r \in Reqs, p \in Pathnames, o \in Outcomes, run \in HandlerRuns :
       ServeAPI(r, p, NoHeaders, o, run)
  \/ \E r \in Reqs, p \in Pathnames, o \in Outcomes : ServePage(r, p, NoHeaders, o)
  \/ \E r \in Reqs : EnterFail(r, Path.malformedUrl)

SpecDispatch == Init /\ [][DispatchNext]_vars

\* Compiled modules under recompilation and redeployment: requests for a
\* module with server-only code, one without, one compiled on demand, a
\* remote one and one without output.
ServedPaths == {Path.indexJs, Path.logoJs, Path.aboutJs, Path.reactJs, Path.swrJs}

ModuleNext ==
  \/ \E r \in Reqs, p \in ServedPaths, h \in ETagHeaders : FindModule(r, p, h)
  \/ \E r \in Reqs : Probe(r)
  \/ \E r \in Reqs : Compile(r)
  \/ \E r \in Reqs : ServeModule(r)
  \/ \E r \in Reqs : Strip(r)
  \/ \E r \in Reqs : Thrown(r)
  \/ \E r \in Reqs : BuildFile(r)
  \/ \E data \in ModifyPayloads :
       Len(heap[IndexTsx]) <= MaxRecompiles /\ WatchModify(IndexTsx, data)
  \/ Redeploy

InitModule == Init /\ basePath = RootBase

SpecModule == InitModule /\ [][ModuleNext]_vars

(***************************************************************************)
(* Properties of the dispatch.                                             *)
(***************************************************************************)
\* The states of an invocation in each resource class.
StagesOf(class) ==
  CASE class = "hmr" -> {"connecting", "open", "closed", "failed", "done"}
    [] class = "dist" ->
         {"probe", "compile", "getModuleJS", "stripSsrCode", "file", "done"}
    [] class = "public" -> {"public", "done"}
    [] OTHER -> {"done"}

\* The resource class a branch belongs to: the SSR data are build output.
ClassOf(b) == IF b = "data" THEN "dist" ELSE b

\* C1: every request whose pathname was produced is handled by exactly the
\* first class whose rule matches: /_hmr, then the /_aleph/ prefix (SSR data
\* first), then a file in the public directory, then the /api/ prefix, then
\* the page; a request under /_aleph/ is never answered from the public
\* directory, by an API route or by a page, and a public file is served for a
\* path that also lies under /api/.
C1_FirstMatch ==
  \A r \in Reqs :
    pc[r] \notin {"idle", "rejected"} =>
      LET p == pathname[r]
          hmr == p = <<"/", "_hmr">>
          aleph == Len(p) >= 3 /\ SubSeq(p, 1, 3) = <<"/", "_aleph", "/">>
          data == /\ Len(p) >= 5
                  /\ SubSeq(p, 1, 5) = <<"/", "_aleph", "/", "data", "/">>
                  /\ p[Len(p)] = ".json"
          public == (<<"/", "app", "/", "public">> \o p) \in Disk
          api == Len(p) >= 3 /\ SubSeq(p, 1, 3) = <<"/", "api", "/">>
          class == ClassOf(branch[r])
      IN  /\ class \in {"hmr", "dist", "public", "api", "page"}
          /\ pc[r] \in StagesOf(class)
          /\ class = "hmr" <=> hmr
          /\ class = "dist" <=> (~hmr /\ aleph)
          /\ branch[r] = "data" <=> (~hmr /\ aleph /\ data)
          /\ class = "public" <=> (~hmr /\ ~aleph /\ public)
          /\ class = "api" <=> (~hmr /\ ~aleph /\ ~public /\ api)
          /\ class = "page" <=> (~hmr /\ ~aleph /\ ~public /\ ~api)
          /\ (aleph /\ ~hmr /\ pc[r] = "done") =>
               /\ res[r].ctype # HtmlType \/ res[r].status = 500
               /\ res[r].body # readFile(<<"/", "app", "/", "public">> \o p)
          /\ (public /\ api /\ pc[r] = "done") =>
               \/ res[r].status = 304
               \/ res[r].body = readFile(<<"/", "app", "/", "public">> \o p)

\* The public file under /api/ was served, and a path under /_aleph/ with a
\* public file of its name was answered from the build directory.
C1_Witness ==
  \E r1, r2 \in Reqs :
    /\ pc[r1] = "done" /\ pathname[r1] = Path.apiDoc
    /\ branch[r1] = "public" /\ res[r1].status = 200
    /\ res[r1].ctype = "application/json"
    /\ pc[r2] = "done" /\ pathname[r2] = Path.alephLogo
    /\ branch[r2] = "dist" /\ res[r2].status = 404

(***************************************************************************)
(* Properties of the compiled modules.                                     *)
(***************************************************************************)
\* The invocation resolved a compiled module with content.
GotModule(r) == loc[r].module # NoModule /\ loc[r].content # Null

\* The invocation answered 200 from a compiled module.
SentModule(r) == pc[r] = "done" /\ GotModule(r) /\ res[r].status = 200

Fingerprint(module) == IF module.hash = "" THEN module.sourceHash ELSE module.hash

\* C2: a request for a compiled module that carries as If-None-Match the
\* ETag of an earlier 200 response for the module, the module's fingerprint
\* unchanged, is answered 304 with an empty body under the same build
\* version, and 200 with another ETag under a changed build version (500
\* when a collaborator fails on the way to the body).
C2_ConditionalDelivery ==
  \A r1, r2 \in Reqs :
    ( /\ r1 # r2
      /\ SentModule(r1)
      /\ pc[r2] = "done" /\ GotModule(r2)
      /\ hdr[r2].inm = res[r1].etag
      /\ loc[r1].module.s = loc[r2].module.s
      /\ Fingerprint(Deref(loc[r1].module)) = Fingerprint(Deref(loc[r2].module)) )
    => /\ loc[r2].version = loc[r1].version
            => res[r2].status = 304 /\ res[r2].body = <<>> /\ res[r2].sends = 1
       /\ loc[r2].version # loc[r1].version
            => /\ res[r2].status \in {200, 500}
               /\ res[r2].etag # NoHeader
               /\ res[r2].etag # res[r1].etag

\* After a redeployment the ETag of an earlier response no longer matches:
\* the unchanged module is sent again, with a new ETag.
C2_Witness ==
  \E r1, r2 \in Reqs :
    /\ SentModule(r1) /\ SentModule(r2)
    /\ hdr[r2].inm = res[r1].etag
    /\ loc[r1].module = loc[r2].module
    /\ loc[r1].module.s = LogoTsx
    /\ loc[r1].version = "0.3.0" /\ loc[r2].version = "0.3.1"
    /\ res[r2].etag = <<"md5", "0.3.1slogo1">>

NoServerHooks(module) ==
  module.denoHooks = <<>> /\ module.ssrPropsFn = "" /\ module.ssgPathsFn = ""

\* The specifiers eligible for HMR: local modules.
Local(specifier) == specifier[2] # "-"

HotContextLine(specifier) ==
  <<"import.meta.hot = window.$createHotContext(", "\"">> \o specifier \o <<"\"", ");">>

HotAcceptLine == <<"import.meta.hot.accept();">>

\* code is a run of consecutive lines of body.
Within(code, body) ==
  \E k \in 0..Len(body) :
    k + Len(code) <= Len(body) /\ SubSeq(body, k + 1, k + Len(code)) = code

ClientLines(s, n) == << <<"import", "react">>, <<"export default", Name(s), VTag(n)>> >>

\* The hot module of a .tsx or .jsx source with server-only code: the
\* stripped code inside the refresh transform, then the signature transform
\* over the four lines it is given.
ExpectedHotModule(s, n) ==
  << HotContextLine(s), <<>>, <<"import", "refresh">> >>
    \o ClientLines(s, n)
    \o << <<"refresh.register", Name(s)>>, <<"sig", "4">>, <<>>, HotAcceptLine >>

\* C4: in development mode the body served for an HMR-eligible module with
\* server-only hooks is the hot-context line with the specifier as a JSON
\* string, the stripped code after the hmr transforms in order, and the
\* hot-accept call; a later request for the same record under the same build
\* is sent the same text and strips nothing.
C4_HotTemplate ==
  \A r \in Reqs :
    (isDev /\ SentModule(r) /\ Local(loc[r].module.s)
       /\ ~NoServerHooks(Deref(loc[r].module)))
      => /\ res[r].body = ExpectedHotModule(loc[r].module.s, loc[r].module.n)
         /\ \A q \in loc[r].after :
              (SentModule(q) /\ loc[q].module = loc[r].module
                 /\ loc[q].version = loc[r].version)
                => res[q].body = res[r].body /\ ~loc[r].stripped

\* A second request was served the memoized variant the first one stripped.
C4_Witness ==
  \E r1, r2 \in Reqs :
    /\ isDev
    /\ SentModule(r1) /\ SentModule(r2)
    /\ r1 \in loc[r2].after
    /\ loc[r1].module = Ref(IndexTsx, 1) /\ loc[r2].module = Ref(IndexTsx, 1)
    /\ loc[r1].stripped /\ ~loc[r2].stripped
    /\ res[r2].body = res[r1].body
    /\ res[r2].body = ExpectedHotModule(IndexTsx, 1)

\* The compilation a hot module's code comes from.
CompilationOf(body) ==
  CHOOSE n \in 1..7 : \E i \in DOMAIN body :
    Len(body[i]) = 3 /\ body[i][1] = "export default" /\ body[i][3] = VTag(n)

\* The invocation was sent the client-only variant of a module.
SentVariant(r) ==
  /\ isDev
  /\ SentModule(r)
  /\ Local(loc[r].module.s)
  /\ ~NoServerHooks(Deref(loc[r].module))

Threw(route, run) ==
  /\ route # "null"
  /\ \/ run = "import throws"
     \/ isFunctionDefault(route) /\ run \in {"throws", "responds and throws"}

\* The answers of the API branch that do not depend on the handler's run.
ApiEnvelopes(r, p, run) ==
  LET route == getAPIRoute(pathname'[r])
      out == res'[r]
  IN  /\ pc'[r] = "done"
      /\ route = "null" =>
           /\ out.status = 404 /\ out.body = JsonBody("404", "not found")
           /\ out.ctype = JsonType /\ out.sends = 1
      /\ route # "null" /\ run # "import throws" /\ ~isFunctionDefault(route) =>
           /\ out.status = 500 /\ out.body = JsonBody("500", "bad api handler")
           /\ out.ctype = JsonType /\ out.sends = 1
      /\ Threw(route, run) =>
           /\ loc'[r].logged = <<"invoke API:", "boom">>
           /\ \A err \in Errors : out.body # ErrorPage(err)

\* C11 as claimed: no route gives 404 {status: 404, message: "not found"}, a
\* default export that is not a function gives 500 {status: 500, message:
\* "bad api handler"}, and whenever loading or calling the handler throws the
\* response is 500 with the error's message in JSON, the failure is logged,
\* the top-level catch is not reached and handle() completes.
C11_ThrowAlways500 ==
  [][\A r \in Reqs, p \in Pathnames, run \in HandlerRuns :
       branch'[r] = "api" /\ ServeAPI(r, p, NoHeaders, "resolves", run) =>
         /\ ApiEnvelopes(r, p, run)
         /\ Threw(getAPIRoute(pathname'[r]), run) =>
              /\ res'[r].status = 500
              /\ res'[r].body = JsonBody("500", "boom")
              /\ res'[r].ctype = JsonType]_vars

\* C11, amended: as claimed when the handler throws before it has responded;
\* when it throws after it responded, the response it sent stands, the 500
\* envelope is issued on the finalized context and the failure is logged.
C11_ApiErrors ==
  [][\A r \in Reqs, p \in Pathnames, run \in HandlerRuns :
       branch'[r] = "api" /\ ServeAPI(r, p, NoHeaders, "resolves", run) =>
         /\ ApiEnvelopes(r, p, run)
         /\ Threw(getAPIRoute(pathname'[r]), run) /\ run # "responds and throws" =>
              /\ res'[r].status = 500
              /\ res'[r].body = JsonBody("500", "boom")
              /\ res'[r].ctype = JsonType
              /\ res'[r].sends = 1
         /\ Threw(getAPIRoute(pathname'[r]), run) /\ run = "responds and throws" =>
              /\ res'[r].status = 200
              /\ res'[r].body = << <<"{\"pong\":true}">> >>
              /\ res'[r].sends = 2]_vars

\* A handler threw and was answered with the JSON envelope, it was logged,
\* and the next request was served.
C11_Witness ==
  /\ branch[1] = "api" /\ pc[1] = "done"
  /\ pathname[1] = <<"/", "api", "/", "ping">>
  /\ res[1].status = 500 /\ res[1].body = JsonBody("500", "boom")
  /\ loc[1].logged = <<"invoke API:", "boom">>
  /\ branch[2] = "api" /\ pc[2] = "done" /\ res[2].status = 200

\* C12: an error raised at any step of a request, from the entry (URL
\* rewrite and path decoding) through every collaborator call, and not
\* recovered closer to its origin, is answered with one 500 response whose
\* body is the HTML error page with the message and the stack trace, and
\* handle() completes.
C12_EveryErrorAnswered ==
  [][\A r \in Reqs :
       (\/ EnterFail(r, Path.malformedUrl)
        \/ Thrown(r)
        \/ \E p \in Pathnames :
             \/ ServeSSRData(r, p, NoHeaders, "rejects")
             \/ ServeAPI(r, p, NoHeaders, "rejects", "returns")
             \/ ServePage(r, p, NoHeaders, "rejects"))
       => /\ pc'[r] = "done"
          /\ res'[r].status = 500
          /\ \E err \in Errors : res'[r].body = ErrorPage(err)
          /\ res'[r].ctype = HtmlType
          /\ res'[r].sends = 1]_vars

(***************************************************************************)
(* Properties of the on-demand compilation.                                *)
(***************************************************************************)
\* The build-output path an invocation of the /_aleph/ branch asks for.
RelPath(r) == trimPrefix(pathname[r], AlephDir)

\* The invocation asked for a compiled module that no record of the table
\* had when it looked.
Unknown(r) ==
  /\ branch[r] = "dist" /\ DistCase(pathname[r]) = "module"
  /\ loc[r].module = NoModule \/ loc[r].probed # <<>>

\* The sources of a build-output path in the order they are to be tried.
SourcesInOrder(relPath) ==
  LET stem == trimSuffix(relPath, <<".js">>)
  IN  << stem \o <<".tsx">>, stem \o <<".jsx">>, stem \o <<".ts">>,
         stem \o <<".js">>, stem \o <<".mjs">>, stem >>

OnDisk(specifier) == existsFile(join(WorkingDir, specifier))

\* What the lookup of an unknown module does before the response: nothing
\* in production; in development the sources are tried in order up to the
\* first one on disk, and that one alone is compiled.
Lookup(r) ==
  LET probed == loc[r].probed
      order == SourcesInOrder(RelPath(r))
  IN  /\ ~isDev =>
           /\ probed = <<>> /\ loc[r].module = NoModule
           /\ pc[r] \notin {"probe", "compile"}
           /\ \A s \in Specifiers : Len(heap[s]) = IF s \in InitialModules THEN 1 ELSE 0
      /\ isDev /\ pc[r] # "probe" =>
           /\ probed # <<>>
           /\ probed = SubSeq(order, 1, Len(probed))
           /\ \A i \in 1..(Len(probed) - 1) : ~OnDisk(probed[i])
           /\ OnDisk(probed[Len(probed)]) \/ probed = order
           /\ loc[r].module # NoModule =>
                /\ loc[r].module.s = probed[Len(probed)]
                /\ OnDisk(loc[r].module.s)
           /\ pc[r] = "compile" => OnDisk(probed[Len(probed)])

\* The lookup of the invocation ended without a module: no source on disk,
\* or the compilation failed.
NotFound(r) == Unknown(r) /\ pc[r] = "done" /\ loc[r].module = NoModule

\* C13 as claimed: the sources of an unknown module are tried in the fixed
\* order, only the first one on disk is compiled, production compiles
\* nothing, and when no source is on disk or the compilation fails the
\* response is 404.
C13_NotFoundIs404 ==
  \A r \in Reqs : Unknown(r) =>
    /\ Lookup(r)
    /\ NotFound(r) => res[r].status = 404

\* C13, amended: as claimed for the order and the single compilation; with
\* no source on disk the request goes on to the build directory, whose file
\* is served if there is one and 404 sent otherwise; a failed compilation is
\* answered by the top-level catch with the 500 error page.
C13_OnDemandCompile ==
  \A r \in Reqs : Unknown(r) =>
    /\ Lookup(r)
    /\ NotFound(r) =>
         LET filePath == join(BuildDir, RelPath(r))
             compiling == isDev /\ OnDisk(loc[r].probed[Len(loc[r].probed)])
         IN  /\ res[r].sends = 1
             /\ compiling =>
                  /\ res[r].status = 500
                  /\ \E err \in Errors : res[r].body = ErrorPage(err)
             /\ ~compiling /\ existsFile(filePath) =>
                  res[r] = FileResponse(SeededResponse, filePath, hdr[r].ims).rs
             /\ ~compiling /\ ~existsFile(filePath) =>
                  /\ res[r].status = 404
                  /\ res[r].body = << <<"not found">> >>

\* A module with two sources on disk was compiled from the first of them and
\* served, and a module with no source was tried under every name and
\* answered 404.
C13_Witness ==
  /\ isDev
  /\ pathname[1] = Path.aboutJs /\ pc[1] = "done" /\ res[1].status = 200
  /\ loc[1].probed = << <<"/", "pages", "/", "about", ".tsx">>, AboutJsx >>
  /\ OnDisk(AboutTs)
  /\ pathname[2] = Path.missingJs /\ pc[2] = "done" /\ res[2].status = 404
  /\ Len(loc[2].probed) = Len(builtinModuleExts) + 1

(***************************************************************************)
(* Properties of the files.                                                *)
(***************************************************************************)
\* C14: a request for a public file whose If-Modified-Since equals the
\* file's Last-Modified string is answered 304 with an empty body and the
\* file is not read; with any other value, or none, it is answered 200 with
\* the file's body, Last-Modified set to the file's modification time and
\* the content type of the file's extension.
C14_PublicConditional ==
  \A r \in Reqs : branch[r] = "public" /\ pc[r] = "done" =>
    LET filePath == join(PublicDir, pathname[r])
        out == res[r]
    IN  /\ out.sends = 1
        /\ hdr[r].ims = MTime(filePath) =>
             /\ out.status = 304 /\ out.body = <<>>
             /\ loc[r].read = <<>>
        /\ hdr[r].ims # MTime(filePath) =>
             /\ out.status = 200
             /\ out.body = << <<"contents of">> \o filePath >>
             /\ out.lastModified = MTime(filePath)
             /\ out.ctype = getContentType(filePath)
             /\ loc[r].read = <<filePath>>

\* A public file was served in full, asked for again with the date that
\* response carried and answered 304 without being read.
C14_Witness ==
  /\ branch[1] = "public" /\ pc[1] = "done" /\ res[1].status = 200
  /\ hdr[1].ims = "2015-10-21T07:28:00.000Z"
  /\ branch[2] = "public" /\ pc[2] = "done" /\ pathname[2] = pathname[1]
  /\ hdr[2].ims = res[1].lastModified
  /\ res[2].status = 304 /\ res[2].body = <<>> /\ loc[2].read = <<>>

\* C15: when the validator of the request matches, the 304 is produced
\* before any downstream work: for a compiled module no body has been loaded
\* with getModuleJS, nothing has been stripped, transformed or wrapped, for
\* a file no body has been read, and the validator header is set on the
\* response only when the validator does not match.
C15_NotModifiedBeforeWork ==
  \A r \in Reqs : pc[r] = "done" /\ res[r].status = 304 =>
    /\ res[r].body = <<>>
    /\ res[r].etag = NoHeader /\ res[r].lastModified = NoDate
    /\ loc[r].read = <<>>
    /\ ~loc[r].stripped /\ loc[r].code = <<>>
    /\ loc[r].content = Null

\* C16: once a response has been sent for a request, by the dispatcher or by
\* the API handler it called, the dispatcher issues no further write on the
\* request context: no request context is sent on twice.
C16_FinalizeTerminal == \A r \in Reqs : res[r].sends <= 1

(***************************************************************************)
(* Properties of concurrent requests and recompilations.                   *)
(***************************************************************************)
\* The ETag and the body of a 200 response for a compiled module belong to
\* one compilation of the module.
OneVersion(r) ==
  SentModule(r) =>
    LET s == loc[r].module.s
        n == CompilationOf(res[r].body)
    IN  /\ n \in DOMAIN heap[s]
        /\ res[r].etag = <<"md5", loc[r].version \o Fingerprint(heap[s][n])>>

\* The step leaves every module record as it was.
RecordsKept ==
  \A s \in Specifiers : \A n \in DOMAIN heap[s] : heap'[s][n] = heap[s][n]

\* C17: under every interleaving of requests for a module with its
\* recompilations, the ETag and the body of a 200 response belong to one
\* version of the module record, and no step of the dispatcher changes a
\* field of a module record.
C17_WholeRecords ==
  [][\A r \in Reqs : pc'[r] # pc[r] => OneVersion(r)' /\ RecordsKept]_vars

(***************************************************************************)
(* Properties of the responses.                                            *)
(***************************************************************************)
\* handle() has returned or failed for the request.
Ended(r) == pc[r] \in {"done", "rejected"}

\* The request was given to the handler of an API route.
HandedOver(r) ==
  branch[r] = "api" /\ getAPIRoute(pathname[r]) # "null"
    /\ isFunctionDefault(getAPIRoute(pathname[r]))

\* C18: for every request that is no HMR upgrade and is not given to an API
\* handler, handle() ends with exactly one response sent, on every path.
C18_ExactlyOneResponse ==
  \A r \in Reqs :
    Ended(r) /\ branch[r] # "hmr" /\ ~HandedOver(r) => res[r].sends = 1

\* The client-only variant of a record's compiled code.
VariantOf(module) == stripSsrCode(module.specifier, module.jsBuffer)

C20_NoWatcherOutlivesChannel ==
  [][\A r \in Reqs :
       (pc[r] = "open" /\ pc'[r] # "open") =>
         /\ Registered(r)' = 0
         /\ res'[r].sends = 0
         /\ \A q \in Reqs \ {r} :
              listeners'[q] = listeners[q] /\ Registered(q)' = Registered(q)]_vars

============================================================================
